---- MODULE Spec2Model ----
(***************************************************************************)
(* Crop-Recommendation-System: the top-3 recommendation function           *)
(* (predict.py), its command-line wrapper (predict_wrapper.py) and the     *)
(* form UI (app.py).                                                       *)
(*                                                                         *)
(* One behaviour of this module is one run of one of the three entry       *)
(* points, chosen in Init by `program`:                                    *)
(*   "predict_wrapper"  python predict_wrapper.py <argv>                   *)
(*   "app"              the form script app.py, button pressed repeatedly  *)
(*   "predict"          a caller that imports predict and calls            *)
(*                      predict_top3(sample) once, as predict.py's own     *)
(*                      __main__ does, for any sample                      *)
(*                                                                         *)
(* Probabilities are fixed-point numbers in units of 10^-6; percentages    *)
(* are fixed-point numbers in units of 0.01.                               *)
(***************************************************************************)
EXTENDS Integers, Sequences, FiniteSets, TLC

VARIABLES
    program,     \* which entry point this run executes
    modelFile,   \* crop_model.pkl as joblib.load finds it: unreadable, or a classifier
    model,       \* the module-level `model`: NoModel, or the loaded classifier's classes_
    pc,          \* position of the run
    argv,        \* sys.argv[1:] of predict_wrapper.py
    sample,      \* the vector the caller of predict_top3 passes
    stdout,      \* the JSON objects printed so far, in order
    exitCode,    \* the process's exit status, NoExit while it runs
    fault,       \* the exception that left the top level uncaught: "none", "load" or "request"
    ret,         \* outcome of the last predict_top3 call
    shown,       \* what the form shows after the last button press
    nReq,        \* requests made so far: CLI runs of predict, calls, button presses
    nCalls,      \* calls of model.predict_proba made so far
    loadFailed,  \* joblib.load has raised in this run
    lastInput,   \* the vector given to the last request
    lastProbs    \* the probabilities the classifier returned to the last request

vars == <<program, modelFile, model, pc, argv, sample, stdout, exitCode, fault, ret,
          shown, nReq, nCalls, loadFailed, lastInput, lastProbs>>

---------------------------------------------------------------------------
(* Bounds of the model *)

MaxClasses == 4
MaxArgs == 8
MaxRequests == 2

(* Fixed-point units: 1.0 as a probability, and the quotient between a
   probability unit (10^-6) and a percentage unit (0.01 % = 10^-4). *)
ProbOne == 10 ^ 6
PctDiv == 10 ^ 2

---------------------------------------------------------------------------
(* Values *)

NoModel == <<>>
NoExit == "running"
None == <<>>
NoError == ""

FEATURES == <<"N", "P", "K", "temperature", "humidity", "ph", "rainfall">>

ExpectedArgs == 7

TopK == 3

(* The label vocabulary, in the order numpy sorts it (model.classes_). *)
Crops == <<"apple", "banana", "coconut", "maize", "rice", "wheat">>

Classes(n) == SubSeq(Crops, 1, n)

(* str.upper on the labels *)
Upper(crop) ==
    CASE crop = "apple" -> "APPLE"
      [] crop = "banana" -> "BANANA"
      [] crop = "coconut" -> "COCONUT"
      [] crop = "maize" -> "MAIZE"
      [] crop = "rice" -> "RICE"
      [] crop = "wheat" -> "WHEAT"

(* Command-line words and feature values: "90" is an ordinary number, "1e39"
   is a number that float() accepts and float32 cannot hold, "abc" is no
   number. *)
ArgTokens == {"90", "1e39", "abc"}
FeatureTokens == {"90", "1e39"}

SeqsUpTo(S, n) == UNION {[1..k -> S] : k \in 0..n}

(* float(x) succeeds *)
IsFloatLiteral(x) == x \in {"90", "1e39"}

(* The classifier's input validation (float32, finite) accepts the value *)
ClassifierAccepts(x) == x = "90"

(* Probabilities the classifier may return for one class *)
ProbValues == {0, 50, 250000, 333280, 333333, 333334, 333360,
               499950, 500000, 999950, ProbOne}

(* model.predict_proba(df)[0] for a classifier of n classes: non-negative,
   summing to 1, one entry per class in the order of model.classes_ *)
RECURSIVE ProbVectorsSumming(_, _)
ProbVectorsSumming(n, total) ==
    IF n = 0 THEN (IF total = 0 THEN {<<>>} ELSE {})
    ELSE UNION {{<<v>> \o rest : rest \in ProbVectorsSumming(n - 1, total - v)} :
                    v \in {x \in ProbValues : x <= total}}

ProbVectors(n) == ProbVectorsSumming(n, ProbOne)

(* crop_model.pkl: unreadable, or a classifier of 1..MaxClasses classes *)
ModelFiles ==
    {[readable |-> FALSE, classes_ |-> <<>>]} \cup
    {[readable |-> TRUE, classes_ |-> Classes(n)] : n \in 1..MaxClasses}

Programs == {"predict_wrapper", "app", "predict"}

(* What the form's widgets can hold: N, P, K are integers in 0..200, the four
   other fields are unbounded floats. *)
FormInputs == {<<"90", "90", "90">> \o t : t \in [1..4 -> FeatureTokens]}

---------------------------------------------------------------------------
(* Exceptions and messages *)

LoadMsg == "Failed to load model: [Errno 2] No such file or directory"
ExpectedMsg == "Expected 7 features: N, P, K, temperature, humidity, ph, rainfall"
FloatMsg == "could not convert string to float: 'abc'"
ColumnsMsg == "7 columns passed, passed data had a different number of columns"
InfinityMsg == "Input X contains infinity or a value too large for dtype('float32')."
NameMsg == "name 'model' is not defined"

Raise(msg) == [kind |-> "raise", value |-> msg]
Return(v) == [kind |-> "return", value |-> v]

---------------------------------------------------------------------------
(* The pure steps of the recommendation function *)

(* Faulty variant of JoblibLoad: a default classifier instead of the exception *)
JoblibLoadFallback(file) ==
    IF file.readable THEN [raised |-> FALSE, model |-> file.classes_]
    ELSE [raised |-> FALSE, model |-> Classes(1)]

(* joblib.load: the classifier, or an exception *)
JoblibLoad(file) ==
    IF file.readable THEN [raised |-> FALSE, model |-> file.classes_]
    ELSE [raised |-> TRUE, model |-> NoModel]

(* Faulty variant of DataFrameRaises: the row is padded or cut to the columns *)
DataFrameRaisesNever(row, columns) == FALSE

(* pd.DataFrame([row], columns=columns) raises ValueError *)
DataFrameRaises(row, columns) == Len(row) # Len(columns)

(* model.predict_proba(df) raises ValueError *)
PredictProbaRaises(row) == \E i \in 1..Len(row) : ~ClassifierAccepts(row[i])

(* list(zip(classes, probs)) *)
Zip(classes, probs) == [i \in 1..Len(classes) |-> <<classes[i], probs[i]>>]

(* Faulty variant of InsertDesc: x goes before the elements of equal key *)
RECURSIVE InsertDescTiesReversed(_, _)
InsertDescTiesReversed(s, x) ==
    IF s = <<>> THEN <<x>>
    ELSE IF Head(s)[2] > x[2] THEN <<Head(s)>> \o InsertDescTiesReversed(Tail(s), x)
    ELSE <<x>> \o s

(* One insertion of sorted(..., key=lambda x: x[1], reverse=True): x goes
   behind every element whose key is at least its own, so equal keys keep
   their order. *)
RECURSIVE InsertDesc(_, _)
InsertDesc(s, x) ==
    IF s = <<>> THEN <<x>>
    ELSE IF Head(s)[2] >= x[2] THEN <<Head(s)>> \o InsertDesc(Tail(s), x)
    ELSE <<x>> \o s

RECURSIVE SortFrom(_, _)
SortFrom(acc, rest) ==
    IF rest = <<>> THEN acc
    ELSE SortFrom(InsertDesc(acc, Head(rest)), Tail(rest))

(* Faulty variant of SortedDesc: reverse=True forgotten *)
RECURSIVE InsertAsc(_, _)
InsertAsc(s, x) ==
    IF s = <<>> THEN <<x>>
    ELSE IF Head(s)[2] <= x[2] THEN <<Head(s)>> \o InsertAsc(Tail(s), x)
    ELSE <<x>> \o s

RECURSIVE SortAscFrom(_, _)
SortAscFrom(acc, rest) ==
    IF rest = <<>> THEN acc
    ELSE SortAscFrom(InsertAsc(acc, Head(rest)), Tail(rest))

SortedAsc(results) == SortAscFrom(<<>>, results)

(* sorted(results, key=lambda x: x[1], reverse=True) *)
SortedDesc(results) == SortFrom(<<>>, results)

Min(a, b) == IF a <= b THEN a ELSE b

(* Faulty variant of Take: results[:k-1] *)
TakeOneLess(results, k) == SubSeq(results, 1, Min(k - 1, Len(results)))

(* results[:k] *)
Take(results, k) == SubSeq(results, 1, Min(k, Len(results)))

(* Faulty variant of RoundPct: always up *)
RoundPctUp(prob) ==
    IF prob % PctDiv = 0 THEN prob \div PctDiv ELSE (prob \div PctDiv) + 1

(* round(prob * 100, 2): to the nearest 0.01, a tie to the even neighbour *)
RoundPct(prob) ==
    LET q == prob \div PctDiv
        r == prob % PctDiv
        half == PctDiv \div 2
    IN  IF r < half THEN q
        ELSE IF r > half THEN q + 1
        ELSE IF q % 2 = 0 THEN q ELSE q + 1

(* predict.py 15-19: the list predict_top3 returns *)
Top3Pairs(classes, probs) ==
    LET top3 == Take(SortedDesc(Zip(classes, probs)), TopK)
    IN  [i \in 1..Len(top3) |-> <<top3[i][1], RoundPct(top3[i][2])>>]

(* predict_wrapper.py 35-42: the list the success envelope carries *)
Top3Records(classes, probs) ==
    LET top3 == Take(SortedDesc(Zip(classes, probs)), TopK)
    IN  [i \in 1..Len(top3) |->
            [crop |-> top3[i][1], probability |-> RoundPct(top3[i][2])]]

---------------------------------------------------------------------------
(* Initial states: the entry point, the model file and the command line *)

Init ==
    /\ program \in Programs
    /\ modelFile \in ModelFiles
    /\ model = NoModel
    /\ pc = IF program = "predict_wrapper" THEN "load" ELSE "import"
    /\ argv \in IF program = "predict_wrapper" THEN SeqsUpTo(ArgTokens, MaxArgs)
                ELSE {<<>>}
    /\ sample \in IF program = "predict" THEN SeqsUpTo(FeatureTokens, MaxArgs)
                  ELSE {<<>>}
    /\ stdout = <<>>
    /\ exitCode = NoExit
    /\ fault = "none"
    /\ ret = [kind |-> "none", value |-> None]
    /\ shown = None
    /\ nReq = 0
    /\ nCalls = 0
    /\ loadFailed = FALSE
    /\ lastInput = None
    /\ lastProbs = None

---------------------------------------------------------------------------
(* predict_wrapper.py *)

FailureEnvelope(msg) == [success |-> FALSE, error |-> msg]
SuccessEnvelope(top3) == [success |-> TRUE, recommendations |-> top3]
LoadFailureEnvelope(msg) == [error |-> msg]

(* Faulty variant of LoadFailureExit: sys.exit(0) *)
LoadFailureExitZero == 1 - 1

(* Line 15: sys.exit(1) *)
LoadFailureExit == 1

(* Faulty variant of WrapperLoad: sys.exit missing after the print *)
WrapperLoadNoExit ==
    /\ program = "predict_wrapper"
    /\ pc = "load"
    /\ LET r == JoblibLoad(modelFile)
       IN  IF r.raised
           THEN /\ stdout' = Append(stdout, LoadFailureEnvelope(LoadMsg))
                /\ loadFailed' = TRUE
                /\ pc' = "main"
                /\ UNCHANGED <<model, exitCode>>
           ELSE /\ model' = r.model
                /\ pc' = "main"
                /\ UNCHANGED <<stdout, exitCode, loadFailed>>
    /\ UNCHANGED <<program, modelFile, argv, sample, fault, ret, shown, nReq, nCalls,
                   lastInput, lastProbs>>

(* Lines 11-15: the module-level load. On an exception: one object printed,
   sys.exit(1). *)
WrapperLoad ==
    /\ program = "predict_wrapper"
    /\ pc = "load"
    /\ LET r == JoblibLoad(modelFile)
       IN  IF r.raised
           THEN /\ stdout' = Append(stdout, LoadFailureEnvelope(LoadMsg))
                /\ exitCode' = LoadFailureExit
                /\ loadFailed' = TRUE
                /\ pc' = "done"
                /\ UNCHANGED model
           ELSE /\ model' = r.model
                /\ pc' = "main"
                /\ UNCHANGED <<stdout, exitCode, loadFailed>>
    /\ UNCHANGED <<program, modelFile, argv, sample, fault, ret, shown, nReq, nCalls,
                   lastInput, lastProbs>>

(* The exception predict(args) raises before the classifier answers, NoError if
   there is none: lines 23-32 in order. *)
WrapperError(args) ==
    IF Len(args) # ExpectedArgs THEN ExpectedMsg
    ELSE IF \E i \in 1..Len(args) : ~IsFloatLiteral(args[i]) THEN FloatMsg
    ELSE IF DataFrameRaises(args, FEATURES) THEN ColumnsMsg
    ELSE IF model = NoModel THEN NameMsg
    ELSE IF PredictProbaRaises(args) THEN InfinityMsg
    ELSE NoError

(* predict(args) gets as far as calling model.predict_proba *)
WrapperCallsClassifier(args) ==
    WrapperError(args) \in {NoError, InfinityMsg}

(* Lines 49-51 and 19-47: predict(sys.argv[1:]), then the interpreter ends
   with status 0. *)
WrapperMain ==
    /\ program = "predict_wrapper"
    /\ pc = "main"
    /\ lastInput' = argv
    /\ nReq' = nReq + 1
    /\ nCalls' = IF WrapperCallsClassifier(argv) THEN nCalls + 1 ELSE nCalls
    /\ IF WrapperError(argv) # NoError
       THEN /\ stdout' = Append(stdout, FailureEnvelope(WrapperError(argv)))
            /\ lastProbs' = None
       ELSE \E probs \in ProbVectors(Len(model)) :
               /\ lastProbs' = probs
               /\ stdout' = Append(stdout, SuccessEnvelope(Top3Records(model, probs)))
    /\ exitCode' = 0
    /\ pc' = "done"
    /\ UNCHANGED <<program, modelFile, model, argv, sample, fault, ret, shown,
                   loadFailed>>

---------------------------------------------------------------------------
(* predict.py *)

(* Line 5, run by `import predict` (app.py line 2): an exception of
   joblib.load is not handled and ends the importing script. *)
PredictImport ==
    /\ program \in {"app", "predict"}
    /\ pc = "import"
    /\ LET r == JoblibLoad(modelFile)
       IN  IF r.raised
           THEN /\ fault' = "load"
                /\ loadFailed' = TRUE
                /\ pc' = "fault"
                /\ UNCHANGED model
           ELSE /\ model' = r.model
                /\ pc' = "idle"
                /\ UNCHANGED <<fault, loadFailed>>
    /\ UNCHANGED <<program, modelFile, argv, sample, stdout, exitCode, ret, shown, nReq,
                   nCalls, lastInput, lastProbs>>

(* The exception predict_top3(user_input) raises, NoError if there is none:
   lines 10 and 12. *)
PredictTop3Error(user_input) ==
    IF DataFrameRaises(user_input, FEATURES) THEN ColumnsMsg
    ELSE IF PredictProbaRaises(user_input) THEN InfinityMsg
    ELSE NoError

PredictTop3CallsClassifier(user_input) == ~DataFrameRaises(user_input, FEATURES)

(* Lines 9-19: the outcome of predict_top3(user_input) when the classifier
   answers probs *)
PredictTop3(user_input, probs) ==
    IF PredictTop3Error(user_input) # NoError
    THEN Raise(PredictTop3Error(user_input))
    ELSE Return(Top3Pairs(model, probs))

(* Lines 22-23: the caller's one predict_top3(sample) *)
CallPredictTop3 ==
    /\ program = "predict"
    /\ pc = "idle"
    /\ lastInput' = sample
    /\ nCalls' = IF PredictTop3CallsClassifier(sample) THEN nCalls + 1 ELSE nCalls
    /\ IF PredictTop3Error(sample) # NoError
       THEN /\ ret' = PredictTop3(sample, None)
            /\ lastProbs' = None
       ELSE \E probs \in ProbVectors(Len(model)) :
               /\ lastProbs' = probs
               /\ ret' = PredictTop3(sample, probs)
    /\ nReq' = nReq + 1
    /\ pc' = "done"
    /\ UNCHANGED <<program, modelFile, model, argv, sample, stdout, exitCode, fault,
                   shown, loadFailed>>

---------------------------------------------------------------------------
(* app.py *)

(* Lines 22-23: the ranked lines written under the success banner *)
RankedLines(results) ==
    [i \in 1..Len(results) |->
        [rank |-> i, crop |-> Upper(results[i][1]), prob |-> results[i][2]]]

(* Lines 16-23: one press of "Predict Crop". There is no handler around
   predict_top3: its exception leaves the script, and the next press runs the
   script again against the module already imported. *)
PredictCropButton ==
    /\ program = "app"
    /\ pc = "idle"
    /\ nReq < MaxRequests
    /\ \E user_input \in FormInputs :
          /\ lastInput' = user_input
          /\ nCalls' = IF PredictTop3CallsClassifier(user_input)
                       THEN nCalls + 1 ELSE nCalls
          /\ IF PredictTop3Error(user_input) # NoError
             THEN /\ ret' = PredictTop3(user_input, None)
                  /\ lastProbs' = None
                  /\ fault' = "request"
                  /\ shown' = None
             ELSE \E probs \in ProbVectors(Len(model)) :
                     /\ lastProbs' = probs
                     /\ ret' = PredictTop3(user_input, probs)
                     /\ fault' = "none"
                     /\ shown' = RankedLines(PredictTop3(user_input, probs).value)
    /\ nReq' = nReq + 1
    /\ UNCHANGED <<program, modelFile, model, pc, argv, sample, stdout, exitCode,
                   loadFailed>>

---------------------------------------------------------------------------

Next ==
    \/ WrapperLoad
    \/ WrapperMain
    \/ PredictImport
    \/ CallPredictTop3
    \/ PredictCropButton

Spec == Init /\ [][Next]_vars

---------------------------------------------------------------------------
(* Reading a state *)

IsSuccessEnvelope(obj) == DOMAIN obj = {"success", "recommendations"} /\ obj.success
IsFailureEnvelope(obj) == DOMAIN obj = {"success", "error"} /\ ~obj.success

WrapperDone == program = "predict_wrapper" /\ pc = "done"

(* The last request was answered with a recommendation list *)
Answered ==
    IF program = "predict_wrapper"
    THEN stdout # <<>> /\ IsSuccessEnvelope(stdout[Len(stdout)])
    ELSE ret.kind = "return"

(* That list, as (crop, percentage) pairs *)
Answer ==
    IF program = "predict_wrapper"
    THEN LET recs == stdout[Len(stdout)].recommendations
         IN  [i \in 1..Len(recs) |-> <<recs[i].crop, recs[i].probability>>]
    ELSE ret.value

(* Position of a label in model.classes_, and the raw probability the
   classifier gave it in the last request *)
ClassIndex(crop) == CHOOSE i \in 1..Len(model) : model[i] = crop
RawProb(crop) == lastProbs[ClassIndex(crop)]

Labels(list) == {list[i][1] : i \in 1..Len(list)}

RECURSIVE SumPct(_)
SumPct(list) == IF list = <<>> THEN 0 ELSE Head(list)[2] + SumPct(Tail(list))

---------------------------------------------------------------------------
(* C1: every recommendation list returned by predict_top3 or printed by the
   CLI has at most 3 entries, its percentages never increase from one entry
   to the next, and the order is that of the raw probabilities: an entry's
   raw probability is at least that of every later entry, its percentage
   the raw probability rounded on its own. *)
C1_AtMost3SortedByRawProbability ==
    Answered =>
        /\ Len(lastInput) = 7
        /\ Len(Answer) <= 3
        /\ \A i, j \in 1..Len(Answer) :
              i < j => /\ Answer[i][2] >= Answer[j][2]
                       /\ RawProb(Answer[i][1]) >= RawProb(Answer[j][1])

(* C1 witness: the CLI printed three entries of which the first two have
   different raw probabilities and the same percentage after rounding. *)
C1_Witness ==
    /\ program = "predict_wrapper"
    /\ Answered
    /\ Len(Answer) = 3
    /\ RawProb(Answer[1][1]) > RawProb(Answer[2][1])
    /\ Answer[1][2] = Answer[2][2]
    /\ Answer[2][2] > Answer[3][2]

(* C2: for a classifier of n labels the list has exactly min(3, n) entries,
   all distinct labels of the classifier, and no label left out has a
   strictly higher raw probability than a label in the list. *)
C2_ExactlyMin3NBestLabels ==
    Answered =>
        /\ Len(Answer) = (IF Len(model) < 3 THEN Len(model) ELSE 3)
        /\ Cardinality(Labels(Answer)) = Len(Answer)
        /\ \A c \in Labels(Answer) : \E i \in 1..Len(model) : model[i] = c
        /\ \A i \in 1..Len(model) :
              model[i] \notin Labels(Answer) =>
                  \A c \in Labels(Answer) : lastProbs[i] <= RawProb(c)

(* C2 witness: predict_top3 answered for a classifier of two labels with
   exactly two entries. *)
C2_Witness ==
    /\ program = "predict"
    /\ Len(model) = 2
    /\ Answered
    /\ Len(Answer) = 2

(* C3: a vector whose length is not 7 never gets a recommendation list.
   predict_top3 raises the ValueError of the DataFrame construction and does
   not reach the classifier; the CLI, once the model is loaded, prints the
   failure envelope of its length check and nothing else. *)
C3_WrongLengthFails ==
    /\ (program \in {"predict", "app"} /\ nReq > 0 /\ Len(lastInput) # 7) =>
           /\ ret = Raise(ColumnsMsg)
           /\ lastProbs = None
    /\ (WrapperDone /\ Len(argv) # 7) =>
           /\ \A i \in 1..Len(stdout) : ~IsSuccessEnvelope(stdout[i])
           /\ nCalls = 0
           /\ ~loadFailed => stdout = <<FailureEnvelope(ExpectedMsg)>>

(* C3 witness: predict_top3 was called with 8 ordinary numbers and raised. *)
C3_Witness ==
    /\ program = "predict"
    /\ nReq > 0
    /\ Len(lastInput) = 8
    /\ \A i \in 1..8 : lastInput[i] = "90"
    /\ ret.kind = "raise"

(* C4: on every error of a CLI run (model load failure, wrong argument
   count, non-numeric argument) the one object printed is a failure envelope
   with the fields success = false and error, and no exception is left
   uncaught. *)
C4_EveryErrorPrintsFailureEnvelope ==
    (WrapperDone /\ (loadFailed \/ WrapperError(argv) # NoError)) =>
        /\ Len(stdout) = 1
        /\ IsFailureEnvelope(stdout[1])
        /\ fault = "none"

(* C5 as stated: the CLI ends with exit status 0 on every path. *)
C5_ExitZeroOnEveryPath ==
    WrapperDone => exitCode = 0

(* C5 amended: the CLI ends with exit status 0 on every path through
   predict (success, wrong argument count, non-numeric argument, classifier
   error) and with exit status 1 when the model fails to load. *)
C5_ExitZeroUnlessLoadFails ==
    /\ WrapperDone => exitCode = (IF loadFailed THEN 1 ELSE 0)
    /\ (program = "predict_wrapper" /\ pc # "done") => exitCode = NoExit

(* C5 witness: a CLI run whose model load failed has ended with status 1. *)
C5_Witness ==
    /\ WrapperDone
    /\ loadFailed
    /\ exitCode = 1

(* C6: once loading the model has failed (the file cannot be read), the run
   never calls the classifier and never emits a recommendation list, in the
   CLI and in the module behind the form alike. *)
C6_NoPredictionAfterLoadFailure ==
    (loadFailed \/ (~modelFile.readable /\ pc \notin {"load", "import"})) =>
        /\ nCalls = 0
        /\ lastProbs = None
        /\ \A i \in 1..Len(stdout) : ~IsSuccessEnvelope(stdout[i])
        /\ ret.kind # "return"
        /\ shown = None
        /\ pc \in {"done", "fault"}

(* C6 witness: a CLI run given seven ordinary numbers ended at the failed
   load. *)
C6_Witness ==
    /\ WrapperDone
    /\ loadFailed
    /\ Len(argv) = 7
    /\ \A i \in 1..7 : argv[i] = "90"

(* C7: no request-level error of the recommendation function leaves the
   adapter (CLI or form) as an uncaught exception. *)
C7_RequestErrorsCaughtAtAdapter ==
    program \in {"predict_wrapper", "app"} => fault # "request"

(* C8 as stated: every percentage lies in [0, 100] and the percentages of
   the list sum to at most 100. *)
C8_SumAtMost100 ==
    Answered =>
        /\ \A i \in 1..Len(Answer) : Answer[i][2] >= 0 /\ Answer[i][2] <= 10000
        /\ SumPct(Answer) <= 10000

(* C8 amended: every percentage lies in [0, 100] and the percentages of the
   list sum to at most 100.01: each of the up to 3 roundings adds at most
   0.005. *)
C8_SumAtMost100_01 ==
    Answered =>
        /\ \A i \in 1..Len(Answer) : Answer[i][2] >= 0 /\ Answer[i][2] <= 10000
        /\ SumPct(Answer) <= 10001

(* C8 witness: a list whose percentages sum to 100.01. *)
C8_Witness ==
    /\ Answered
    /\ Len(Answer) = 3
    /\ SumPct(Answer) = 10001

(* C9: labels of equal raw probability appear in the list in the order of
   model.classes_, and of equal-probability labels at the cut-off the ones
   earlier in model.classes_ are the ones kept. *)
C9_TiesKeepClassOrder ==
    Answered =>
        /\ \A i, j \in 1..Len(Answer) :
              (i < j /\ RawProb(Answer[i][1]) = RawProb(Answer[j][1])) =>
                  ClassIndex(Answer[i][1]) < ClassIndex(Answer[j][1])
        /\ \A k \in 1..Len(model) :
              model[k] \notin Labels(Answer) =>
                  \A c \in Labels(Answer) :
                      lastProbs[k] = RawProb(c) => ClassIndex(c) < k

(* C9 witness: four labels of equal probability, the first three of
   model.classes_ returned in that order. *)
C9_Witness ==
    /\ Answered
    /\ Len(model) = 4
    /\ \A k \in 1..4 : lastProbs[k] = lastProbs[1]
    /\ Answer[1][1] = model[1]
    /\ Answer[2][1] = model[2]
    /\ Answer[3][1] = model[3]

(* C10 as stated: every CLI run has printed exactly one object when it
   ends, never a success and a failure envelope both, and with 6 arguments
   that object is the failure envelope of the length check. *)
C10_OneObjectAndLengthErrorOn6Args ==
    /\ program = "predict_wrapper" => Len(stdout) <= 1
    /\ WrapperDone =>
           /\ Len(stdout) = 1
           /\ Len(argv) = 6 => stdout[1] = FailureEnvelope(ExpectedMsg)

(* C10 amended: every CLI run has printed exactly one object when it ends,
   never a success and a failure envelope both, and with 6 arguments and a
   model that loaded that object is the failure envelope of the length
   check; when the model fails to load the one object is the load error,
   whatever the arguments. *)
C10_OneObjectAndLengthErrorOn6ArgsIfLoaded ==
    /\ program = "predict_wrapper" => Len(stdout) <= 1
    /\ WrapperDone =>
           /\ Len(stdout) = 1
           /\ (Len(argv) = 6 /\ ~loadFailed) =>
                  stdout[1] = FailureEnvelope(ExpectedMsg)
           /\ loadFailed => stdout[1] = LoadFailureEnvelope(LoadMsg)

(* C10 witness: a CLI run with 6 ordinary numbers and a loaded model ended
   with the failure envelope of the length check. *)
C10_Witness ==
    /\ WrapperDone
    /\ ~loadFailed
    /\ Len(argv) = 6
    /\ \A i \in 1..6 : argv[i] = "90"
    /\ stdout = <<FailureEnvelope(ExpectedMsg)>>

====
